---- MODULE Spec2Model ----
(***************************************************************************)
(* A model of the voxel toolkit: the integer geometry of voxel/geom.go,    *)
(* the Paletted image and the Blit engine of the voxel package, and the    *)
(* chunk decoder vox.Decode of voxel/vox/vox.go.                           *)
(*                                                                         *)
(* Four specifications share the module:                                   *)
(*   Spec         vox.Decode reading a byte stream into a Paletted sink    *)
(*   SpecBlit     Blit and BlitOp between two Paletted images              *)
(*   SpecPaletted SetBounds / Set / Get on one Paletted image              *)
(*   SpecBox      Box.Union applied to bounded boxes                       *)
(***************************************************************************)
EXTENDS Integers, Sequences, FiniteSets, TLC

VARIABLES
    \* ---- vox.Decode -------------------------------------------------
    input,         \* how stream was put together: [chunks, defect]
    stream,        \* the bytes the io.Reader will deliver, in order
    pos,           \* number of bytes of stream already consumed
    pc,            \* position of Decode in its code
    header,        \* chunkHeader: [Id, DataSize, ChildrenSize]
    childrenSize,  \* uint32 copied from the MAIN header
    numBytes,      \* uint32 running counter of Decode
    hasPalette,    \* bool of Decode
    numVoxels,     \* uint32 voxel count of the current XYZI chunk
    vi,            \* loop index i of the XYZI loop
    img,           \* the sink: a Paletted
    calls,         \* the sink methods Decode has invoked, in order
    result,        \* what Decode returned: "none" while it runs
    lastRead,      \* the last reader.Read of the default branch: [want, got, at]
    \* ---- Blit / BlitOp ----------------------------------------------
    dst, src,      \* the two images (Paletted)
    dp, sr,        \* the arguments; sr is reassigned by the clip
    sr0,           \* the sr argument as passed
    bb,            \* the iteration box b
    cur,           \* loop cursors [x, y, z, sx, sy, sz]
    bpc,           \* position of Blit in its code
    useOp,         \* TRUE for BlitOp, FALSE for Blit
    blog,          \* the dst.Set / src.Get / op calls made, in order
    \* ---- Paletted --------------------------------------------------
    pimg,          \* the image under SetBounds / Set / Get
    pbox,          \* the box last passed to pimg.SetBounds
    pset,          \* the last Set: [x, y, z, v]
    pget,          \* the last Get: [x, y, z, val], val "panic" on a bad index
    pn,            \* number of Set calls made so far
    \* ---- Box --------------------------------------------------------
    boxA, boxB,    \* the two operands
    boxOut,        \* the result of the last operation
    boxOp          \* which operation produced boxOut

decVars == <<input, stream, pos, pc, header, childrenSize, numBytes, hasPalette,
             numVoxels, vi, calls, result, lastRead>>
blitVars == <<dst, src, dp, sr, sr0, bb, cur, bpc, useOp, blog>>
palVars == <<pimg, pbox, pset, pget, pn>>
boxVars == <<boxA, boxB, boxOut, boxOp>>
vars == <<decVars, img, blitVars, palVars, boxVars>>

Min2(a, b) == IF a < b THEN a ELSE b

(***************************************************************************)
(* voxel/geom.go: Point and Box                                            *)
(***************************************************************************)
Pt(x, y, z) == [X |-> x, Y |-> y, Z |-> z]

ZP == Pt(0, 0, 0)

PointAdd(p, q) == Pt(p.X + q.X, p.Y + q.Y, p.Z + q.Z)

PointIn(p, b) ==
    /\ b.Min.X <= p.X /\ p.X < b.Max.X
    /\ b.Min.Y <= p.Y /\ p.Y < b.Max.Y
    /\ b.Min.Z <= p.Z /\ p.Z < b.Max.Z

Box(mn, mx) == [Min |-> mn, Max |-> mx]

ZB == Box(ZP, ZP)

Size(b) == Pt(b.Max.X - b.Min.X, b.Max.Y - b.Min.Y, b.Max.Z - b.Min.Z)

Empty(b) == b.Min.X >= b.Max.X \/ b.Min.Y >= b.Max.Y \/ b.Min.Z >= b.Max.Z

Eq(b, s) == b = s \/ (Empty(b) /\ Empty(s))

\* Box.Intersect with the three clamps of Min left out.
IntersectNoMinClamp(b, s) ==
    LET mxX == IF b.Max.X > s.Max.X THEN s.Max.X ELSE b.Max.X
        mxY == IF b.Max.Y > s.Max.Y THEN s.Max.Y ELSE b.Max.Y
        mxZ == IF b.Max.Z > s.Max.Z THEN s.Max.Z ELSE b.Max.Z
    IN  IF b.Min.X > mxX \/ b.Min.Y > mxY \/ b.Min.Z > mxZ
        THEN ZB
        ELSE Box(b.Min, Pt(mxX, mxY, mxZ))

\* Box.Intersect: clamp b by s, axis by axis; ZB when an axis inverts.
Intersect(b, s) ==
    LET mnX == IF b.Min.X < s.Min.X THEN s.Min.X ELSE b.Min.X
        mnY == IF b.Min.Y < s.Min.Y THEN s.Min.Y ELSE b.Min.Y
        mnZ == IF b.Min.Z < s.Min.Z THEN s.Min.Z ELSE b.Min.Z
        mxX == IF b.Max.X > s.Max.X THEN s.Max.X ELSE b.Max.X
        mxY == IF b.Max.Y > s.Max.Y THEN s.Max.Y ELSE b.Max.Y
        mxZ == IF b.Max.Z > s.Max.Z THEN s.Max.Z ELSE b.Max.Z
    IN  IF mnX > mxX \/ mnY > mxY \/ mnZ > mxZ
        THEN ZB
        ELSE Box(Pt(mnX, mnY, mnZ), Pt(mxX, mxY, mxZ))

\* The min/max merge of lines 169-187 of Box.Union.
UnionMerge(b, s) ==
    Box(Pt(IF b.Min.X > s.Min.X THEN s.Min.X ELSE b.Min.X,
           IF b.Min.Y > s.Min.Y THEN s.Min.Y ELSE b.Min.Y,
           IF b.Min.Z > s.Min.Z THEN s.Min.Z ELSE b.Min.Z),
        Pt(IF b.Max.X < s.Max.X THEN s.Max.X ELSE b.Max.X,
           IF b.Max.Y < s.Max.Y THEN s.Max.Y ELSE b.Max.Y,
           IF b.Max.Z < s.Max.Z THEN s.Max.Z ELSE b.Max.Z))

\* Box.Union without the test of s.Empty(): an empty s contributes its corners.
UnionNoEmptyS(b, s) == IF Empty(b) THEN s ELSE UnionMerge(b, s)

\* Box.Union: an empty operand yields the other operand unchanged.
Union(b, s) ==
    IF Empty(b) THEN s
    ELSE IF Empty(s) THEN b
    ELSE UnionMerge(b, s)

\* Bx: the box of two corners, swapped per axis into Min <= Max.
Bx(x0, y0, z0, x1, y1, z1) ==
    Box(Pt(Min2(x0, x1), Min2(y0, y1), Min2(z0, z1)),
        Pt(IF x0 > x1 THEN x0 ELSE x1,
           IF y0 > y1 THEN y0 ELSE y1,
           IF z0 > z1 THEN z0 ELSE z1))

(***************************************************************************)
(* The Paletted image                                                      *)
(***************************************************************************)
\* The coordinate remappings a caller may install as Paletted.Transformer.
\* noTransform is the one NewPaletted installs.
Transformers == {"noTransform", "swapXY", "swapXZ"}

Transform(t, x, y, z) ==
    CASE t = "noTransform" -> <<x, y, z>>
      [] t = "swapXY"      -> <<y, x, z>>
      [] t = "swapXZ"      -> <<z, y, x>>

Zeros(n) == [k \in 1..n |-> 0]

\* Paletted.Offset: the flat (0-based) index of an already remapped coordinate.
Offset(p, x, y, z) == z * p.bounds.Max.X * p.bounds.Max.Y + y * p.bounds.Max.X + x

\* An index expression p.Data[off] panics outside 0..len-1.
InRange(p, off) == 0 <= off /\ off < Len(p.Data)

\* Paletted.SetBounds: bounds from the remapped Max, a fresh zeroed buffer.
SetBounds(p, b) ==
    LET t == Transform(p.Transformer, b.Max.X, b.Max.Y, b.Max.Z)
    IN  [p EXCEPT !.bounds = Box(ZP, Pt(t[1], t[2], t[3])),
                  !.Data = Zeros(b.Max.X * b.Max.Y * b.Max.Z)]

\* NewPaletted
NewPaletted(pal, b) ==
    SetBounds([bounds |-> ZB, Transformer |-> "noTransform",
               Palette |-> pal, Data |-> <<>>], b)

SetPalette(p, pal) == [p EXCEPT !.Palette = pal]

\* Paletted.Set: where the write lands (remapped, then flattened).
SetOffset(p, x, y, z) ==
    LET t == Transform(p.Transformer, x, y, z)
    IN  Offset(p, t[1], t[2], t[3])

SetPanics(p, x, y, z) == ~InRange(p, SetOffset(p, x, y, z))

Set(p, x, y, z, index) == [p EXCEPT !.Data[SetOffset(p, x, y, z) + 1] = index]

\* Paletted.Get: reads at Offset of the coordinate as given.
GetOffset(p, x, y, z) == Offset(p, x, y, z)

GetPanics(p, x, y, z) == ~InRange(p, GetOffset(p, x, y, z))

Get(p, x, y, z) == p.Data[GetOffset(p, x, y, z) + 1]


(***************************************************************************)
(* voxel/vox/vox.go: the file format                                       *)
(***************************************************************************)
\* A uint32 is held as two 16-bit halves <<high, low>> (the model checker's
\* integers end below 2^32); its arithmetic wraps modulo 2^32.
Half == 65536

\* The uint32 of a small non-negative integer.
Lit(n) == <<n \div Half, n % Half>>

\* a + b in uint32
Add32(a, b) ==
    <<(a[1] + b[1] + ((a[2] + b[2]) \div Half)) % Half, (a[2] + b[2]) % Half>>

\* a < b in uint32
Lt32(a, b) == a[1] < b[1] \/ (a[1] = b[1] /\ a[2] < b[2])

\* 4 * a in uint32
Mul4(a) == Add32(Add32(a, a), Add32(a, a))

\* int(a): the conversion of a uint32 to a (64-bit) int.
ToInt(a) == a[1] * Half + a[2]

\* The 4-byte tags, as bytes: "VOX ", "MAIN", "SIZE", "XYZI", "RGBA".
voxMagic == <<86, 79, 88, 32>>

voxVersion == 150

mainChunkID == <<77, 65, 73, 78>>

sizeShunkID == <<83, 73, 90, 69>>

voxelChunkID == <<88, 89, 90, 73>>

paletteChunkID == <<82, 71, 66, 65>>

\* Number of entries of a palette: make(color.Palette, 256).
PaletteLen == 256

defaultPalette ==
  <<
    <<255,255,255,255>>, <<255,255,204,255>>, <<255,255,153,255>>, <<255,255,102,255>>,
    <<255,255,51,255>>, <<255,255,0,255>>, <<255,204,255,255>>, <<255,204,204,255>>,
    <<255,204,153,255>>, <<255,204,102,255>>, <<255,204,51,255>>, <<255,204,0,255>>,
    <<255,153,255,255>>, <<255,153,204,255>>, <<255,153,153,255>>, <<255,153,102,255>>,
    <<255,153,51,255>>, <<255,153,0,255>>, <<255,102,255,255>>, <<255,102,204,255>>,
    <<255,102,153,255>>, <<255,102,102,255>>, <<255,102,51,255>>, <<255,102,0,255>>,
    <<255,51,255,255>>, <<255,51,204,255>>, <<255,51,153,255>>, <<255,51,102,255>>,
    <<255,51,51,255>>, <<255,51,0,255>>, <<255,0,255,255>>, <<255,0,204,255>>,
    <<255,0,153,255>>, <<255,0,102,255>>, <<255,0,51,255>>, <<255,0,0,255>>,
    <<204,255,255,255>>, <<204,255,204,255>>, <<204,255,153,255>>, <<204,255,102,255>>,
    <<204,255,51,255>>, <<204,255,0,255>>, <<204,204,255,255>>, <<204,204,204,255>>,
    <<204,204,153,255>>, <<204,204,102,255>>, <<204,204,51,255>>, <<204,204,0,255>>,
    <<204,153,255,255>>, <<204,153,204,255>>, <<204,153,153,255>>, <<204,153,102,255>>,
    <<204,153,51,255>>, <<204,153,0,255>>, <<204,102,255,255>>, <<204,102,204,255>>,
    <<204,102,153,255>>, <<204,102,102,255>>, <<204,102,51,255>>, <<204,102,0,255>>,
    <<204,51,255,255>>, <<204,51,204,255>>, <<204,51,153,255>>, <<204,51,102,255>>,
    <<204,51,51,255>>, <<204,51,0,255>>, <<204,0,255,255>>, <<204,0,204,255>>,
    <<204,0,153,255>>, <<204,0,102,255>>, <<204,0,51,255>>, <<204,0,0,255>>,
    <<153,255,255,255>>, <<153,255,204,255>>, <<153,255,153,255>>, <<153,255,102,255>>,
    <<153,255,51,255>>, <<153,255,0,255>>, <<153,204,255,255>>, <<153,204,204,255>>,
    <<153,204,153,255>>, <<153,204,102,255>>, <<153,204,51,255>>, <<153,204,0,255>>,
    <<153,153,255,255>>, <<153,153,204,255>>, <<153,153,153,255>>, <<153,153,102,255>>,
    <<153,153,51,255>>, <<153,153,0,255>>, <<153,102,255,255>>, <<153,102,204,255>>,
    <<153,102,153,255>>, <<153,102,102,255>>, <<153,102,51,255>>, <<153,102,0,255>>,
    <<153,51,255,255>>, <<153,51,204,255>>, <<153,51,153,255>>, <<153,51,102,255>>,
    <<153,51,51,255>>, <<153,51,0,255>>, <<153,0,255,255>>, <<153,0,204,255>>,
    <<153,0,153,255>>, <<153,0,102,255>>, <<153,0,51,255>>, <<153,0,0,255>>,
    <<102,255,255,255>>, <<102,255,204,255>>, <<102,255,153,255>>, <<102,255,102,255>>,
    <<102,255,51,255>>, <<102,255,0,255>>, <<102,204,255,255>>, <<102,204,204,255>>,
    <<102,204,153,255>>, <<102,204,102,255>>, <<102,204,51,255>>, <<102,204,0,255>>,
    <<102,153,255,255>>, <<102,153,204,255>>, <<102,153,153,255>>, <<102,153,102,255>>,
    <<102,153,51,255>>, <<102,153,0,255>>, <<102,102,255,255>>, <<102,102,204,255>>,
    <<102,102,153,255>>, <<102,102,102,255>>, <<102,102,51,255>>, <<102,102,0,255>>,
    <<102,51,255,255>>, <<102,51,204,255>>, <<102,51,153,255>>, <<102,51,102,255>>,
    <<102,51,51,255>>, <<102,51,0,255>>, <<102,0,255,255>>, <<102,0,204,255>>,
    <<102,0,153,255>>, <<102,0,102,255>>, <<102,0,51,255>>, <<102,0,0,255>>,
    <<51,255,255,255>>, <<51,255,204,255>>, <<51,255,153,255>>, <<51,255,102,255>>,
    <<51,255,51,255>>, <<51,255,0,255>>, <<51,204,255,255>>, <<51,204,204,255>>,
    <<51,204,153,255>>, <<51,204,102,255>>, <<51,204,51,255>>, <<51,204,0,255>>,
    <<51,153,255,255>>, <<51,153,204,255>>, <<51,153,153,255>>, <<51,153,102,255>>,
    <<51,153,51,255>>, <<51,153,0,255>>, <<51,102,255,255>>, <<51,102,204,255>>,
    <<51,102,153,255>>, <<51,102,102,255>>, <<51,102,51,255>>, <<51,102,0,255>>,
    <<51,51,255,255>>, <<51,51,204,255>>, <<51,51,153,255>>, <<51,51,102,255>>,
    <<51,51,51,255>>, <<51,51,0,255>>, <<51,0,255,255>>, <<51,0,204,255>>,
    <<51,0,153,255>>, <<51,0,102,255>>, <<51,0,51,255>>, <<51,0,0,255>>,
    <<0,255,255,255>>, <<0,255,204,255>>, <<0,255,153,255>>, <<0,255,102,255>>,
    <<0,255,51,255>>, <<0,255,0,255>>, <<0,204,255,255>>, <<0,204,204,255>>,
    <<0,204,153,255>>, <<0,204,102,255>>, <<0,204,51,255>>, <<0,204,0,255>>,
    <<0,153,255,255>>, <<0,153,204,255>>, <<0,153,153,255>>, <<0,153,102,255>>,
    <<0,153,51,255>>, <<0,153,0,255>>, <<0,102,255,255>>, <<0,102,204,255>>,
    <<0,102,153,255>>, <<0,102,102,255>>, <<0,102,51,255>>, <<0,102,0,255>>,
    <<0,51,255,255>>, <<0,51,204,255>>, <<0,51,153,255>>, <<0,51,102,255>>,
    <<0,51,51,255>>, <<0,51,0,255>>, <<0,0,255,255>>, <<0,0,204,255>>,
    <<0,0,153,255>>, <<0,0,102,255>>, <<0,0,51,255>>, <<238,0,0,255>>,
    <<221,0,0,255>>, <<187,0,0,255>>, <<170,0,0,255>>, <<136,0,0,255>>,
    <<119,0,0,255>>, <<85,0,0,255>>, <<68,0,0,255>>, <<34,0,0,255>>,
    <<17,0,0,255>>, <<0,238,0,255>>, <<0,221,0,255>>, <<0,187,0,255>>,
    <<0,170,0,255>>, <<0,136,0,255>>, <<0,119,0,255>>, <<0,85,0,255>>,
    <<0,68,0,255>>, <<0,34,0,255>>, <<0,17,0,255>>, <<0,0,238,255>>,
    <<0,0,221,255>>, <<0,0,187,255>>, <<0,0,170,255>>, <<0,0,136,255>>,
    <<0,0,119,255>>, <<0,0,85,255>>, <<0,0,68,255>>, <<0,0,34,255>>,
    <<0,0,17,255>>, <<238,238,238,255>>, <<221,221,221,255>>, <<187,187,187,255>>,
    <<170,170,170,255>>, <<136,136,136,255>>, <<119,119,119,255>>, <<85,85,85,255>>,
    <<68,68,68,255>>, <<34,34,34,255>>, <<17,17,17,255>>, <<0,0,0,255>>
  >>

\* binary.LittleEndian: the uint32 held by the 4 bytes of s after offset at.
U32(s, at) == <<s[at + 3] + 256 * s[at + 4], s[at + 1] + 256 * s[at + 2]>>

\* binary.Read into a chunkHeader: Id, DataSize, ChildrenSize.
ParseHeader(s, at) ==
    [Id |-> SubSeq(s, at + 1, at + 4),
     DataSize |-> U32(s, at + 4),
     ChildrenSize |-> U32(s, at + 8)]

\* The 256 four-byte reads of the RGBA branch: entry i is bytes 4i..4i+3.
ParsePalette(s, at) ==
    [i \in 1..PaletteLen |->
        <<s[at + 4 * (i - 1) + 1], s[at + 4 * (i - 1) + 2],
          s[at + 4 * (i - 1) + 3], s[at + 4 * (i - 1) + 4]>>]

\* string(fileHeader.Magic[:]) != voxMagic, comparing three bytes only.
MagicMismatchShort(s) == SubSeq(s, 1, 3) # SubSeq(voxMagic, 1, 3)

\* Line 76: string(fileHeader.Magic[:]) != voxMagic
MagicMismatch(s) == SubSeq(s, 1, 4) # voxMagic

\* The palette test of line 151 dropped: the default is always installed.
WantsDefaultAlways(hp) == TRUE

\* Line 151: if !hasPalette
WantsDefault(hp) == ~hp

\* Line 125: numBytes += 16 * 256
PaletteBytesCounted == Lit(16 * PaletteLen)

(***************************************************************************)
(* Input streams                                                           *)
(***************************************************************************)
\* A stream holds at most MaxChunks child chunks.
MaxChunks == 3

\* The 4 little-endian bytes of a uint32.
LE32(a) == <<a[2] % 256, a[2] \div 256, a[1] % 256, a[1] \div 256>>

\* The bytes of a sequence of 4-byte entries.
Flat(q) == [k \in 1..(4 * Len(q)) |-> q[((k - 1) \div 4) + 1][((k - 1) % 4) + 1]]

ChunkBytes(tag, dataSize, chSize, payload) ==
    tag \o LE32(dataSize) \o LE32(chSize) \o payload

\* The extents, the colour table and the voxel list the test streams carry.
TestExtent == <<3, 2, 2>>

TestPalette ==
    [i \in 1..PaletteLen |-> <<i - 1, 255 - (i - 1), (7 * (i - 1)) % 256, 255>>]

TestVoxels == << <<0, 0, 0, 5>>, <<2, 1, 1, 9>> >>

ChunkKinds == {"SIZE", "RGBA", "XYZI", "PACK", "NOTE", "WRAP"}

\* The bytes of a child chunk of each kind. PACK is an unrecognised chunk with a
\* 3-byte payload, NOTE one with no payload, WRAP one with a 2-byte payload whose
\* declared DataSize + ChildrenSize is 2^32 + 2.
ChunkOf(kind) ==
    CASE kind = "SIZE" ->
            ChunkBytes(sizeShunkID, Lit(12), Lit(0),
                       LE32(Lit(TestExtent[1])) \o LE32(Lit(TestExtent[2]))
                       \o LE32(Lit(TestExtent[3])))
      [] kind = "RGBA" ->
            ChunkBytes(paletteChunkID, Lit(4 * PaletteLen), Lit(0), Flat(TestPalette))
      [] kind = "XYZI" ->
            ChunkBytes(voxelChunkID, Lit(4 + 4 * Len(TestVoxels)), Lit(0),
                       LE32(Lit(Len(TestVoxels))) \o Flat(TestVoxels))
      [] kind = "PACK" ->
            ChunkBytes(<<80, 65, 67, 75>>, Lit(3), Lit(0), <<1, 2, 3>>)
      [] kind = "NOTE" ->
            ChunkBytes(<<78, 79, 84, 69>>, Lit(0), Lit(0), <<>>)
      [] kind = "WRAP" ->
            ChunkBytes(<<87, 82, 65, 80>>, <<65535, 65534>>, Lit(4), <<8, 9>>)

RECURSIVE Children(_)
Children(kinds) ==
    IF kinds = <<>> THEN <<>>
    ELSE ChunkOf(Head(kinds)) \o Children(Tail(kinds))

ChunkLists == UNION {[1..n -> ChunkKinds] : n \in 0..MaxChunks}

\* What is wrong with a stream, one thing at most: a byte of the magic altered,
\* the version byte altered, the MAIN tag altered, the MAIN childrenSize off by
\* delta (a uint32: <<65535, 65535>> is one less), or the stream cut to its first keep bytes or short of its last cut bytes.
Defects ==
    {[kind |-> "none"], [kind |-> "version"], [kind |-> "main"]}
    \cup {[kind |-> "magic", at |-> i] : i \in 1..4}
    \cup {[kind |-> "childrenSize", delta |-> d] : d \in {<<65535, 65535>>, Lit(1), Lit(12), Lit(2000)}}
    \cup {[kind |-> "keep", len |-> n] : n \in {0, 3, 7, 8, 19}}
    \cup {[kind |-> "cut", len |-> n] : n \in {1, 5}}

\* The stream of a list of child chunk kinds with one defect.
BuildStream(kinds, defect) ==
    LET body == Children(kinds)
        magic == IF defect.kind = "magic"
                 THEN [voxMagic EXCEPT ![defect.at] = 33]
                 ELSE voxMagic
        version == IF defect.kind = "version" THEN <<149, 0, 0, 0>>
                   ELSE <<voxVersion, 0, 0, 0>>
        mainTag == IF defect.kind = "main" THEN <<77, 65, 73, 33>> ELSE mainChunkID
        chSize == IF defect.kind = "childrenSize"
                  THEN Add32(Lit(Len(body)), defect.delta)
                  ELSE Lit(Len(body))
        whole == magic \o version \o ChunkBytes(mainTag, Lit(0), chSize, body)
    IN  CASE defect.kind = "keep" -> SubSeq(whole, 1, Min2(defect.len, Len(whole)))
          [] defect.kind = "cut" -> SubSeq(whole, 1, Len(whole) - Min2(defect.len, Len(whole)))
          [] OTHER -> whole

(***************************************************************************)
(* Idle values: what a specification gives the variables it does not use.  *)
(***************************************************************************)
NoImage == [bounds |-> ZB, Transformer |-> "noTransform", Palette |-> <<>>, Data |-> <<>>]

NoHeader == [Id |-> <<0, 0, 0, 0>>, DataSize |-> <<0, 0>>, ChildrenSize |-> <<0, 0>>]

NoRead == [want |-> <<0, 0>>, got |-> 0, at |-> 0 - 1, err |-> FALSE]

NoCursor == [x |-> 0, y |-> 0, z |-> 0, sx |-> 0, sy |-> 0, sz |-> 0]

DecIdle ==
    /\ input = <<>> /\ stream = <<>> /\ pos = 0 /\ pc = "idle" /\ header = NoHeader
    /\ childrenSize = <<0, 0>> /\ numBytes = <<0, 0>> /\ hasPalette = FALSE
    /\ numVoxels = <<0, 0>> /\ vi = <<0, 0>> /\ img = NoImage /\ calls = <<>>
    /\ result = "none" /\ lastRead = NoRead

BlitIdle ==
    /\ dst = NoImage /\ src = NoImage /\ dp = ZP /\ sr = ZB /\ sr0 = ZB
    /\ bb = ZB /\ cur = NoCursor /\ bpc = "idle" /\ useOp = FALSE /\ blog = <<>>

PalIdle ==
    /\ pimg = NoImage /\ pbox = ZB /\ pset = <<>> /\ pget = <<>> /\ pn = 0

BoxIdle ==
    /\ boxA = ZB /\ boxB = ZB /\ boxOut = ZB /\ boxOp = "idle"

(***************************************************************************)
(* Spec: vox.Decode(reader, img) with a Paletted sink                      *)
(***************************************************************************)
notDec == <<blitVars, palVars, boxVars>>

\* Bytes the reader still holds.
Avail == Len(stream) - pos

\* return <err>: Decode is over.
Fail(err) == result' = err /\ pc' = "done"

InitDecode ==
    /\ \E kinds \in ChunkLists, defect \in Defects :
          /\ input = [chunks |-> kinds, defect |-> defect]
          /\ stream = BuildStream(kinds, defect)
    /\ pos = 0
    /\ pc = "fileHeader"
    /\ header = NoHeader
    /\ childrenSize = Lit(0)
    /\ numBytes = Lit(0)
    /\ hasPalette = FALSE
    /\ numVoxels = Lit(0)
    /\ vi = Lit(0)
    /\ img = NewPaletted(<<>>, ZB)
    /\ calls = <<>>
    /\ result = "none"
    /\ lastRead = NoRead
    /\ BlitIdle /\ PalIdle /\ BoxIdle

\* Lines 71-82: read the 8-byte file header, test magic and version.
ReadFileHeader ==
    /\ pc = "fileHeader"
    /\ IF Avail < 8
       THEN /\ pos' = Len(stream)
            /\ Fail("InvalidFile")
       ELSE /\ pos' = pos + 8
            /\ IF MagicMismatch(SubSeq(stream, pos + 1, pos + 4))
               THEN Fail("InvalidFile")
               ELSE IF stream[pos + 5] # voxVersion
               THEN Fail("InvalidVersion")
               ELSE pc' = "mainHeader" /\ UNCHANGED result
    /\ UNCHANGED <<input, stream, header, childrenSize, numBytes, hasPalette,
                   numVoxels, vi, img, calls, lastRead, notDec>>

\* Lines 84-98: read the MAIN header, keep its ChildrenSize.
ReadMainHeader ==
    /\ pc = "mainHeader"
    /\ IF Avail < 12
       THEN /\ pos' = Len(stream)
            /\ Fail("InvalidMainChunk")
            /\ UNCHANGED <<header, childrenSize>>
       ELSE /\ pos' = pos + 12
            /\ header' = ParseHeader(stream, pos)
            /\ IF header'.Id # mainChunkID
               THEN Fail("InvalidMainChunk") /\ UNCHANGED childrenSize
               ELSE /\ childrenSize' = header'.ChildrenSize
                    /\ pc' = "loop"
                    /\ UNCHANGED result
    /\ UNCHANGED <<input, stream, numBytes, hasPalette, numVoxels, vi, img,
                   calls, lastRead, notDec>>

\* Lines 99-105: the loop test holds; read a child header, count 12, dispatch.
ReadChildHeader ==
    /\ pc = "loop"
    /\ Lt32(numBytes, childrenSize)
    /\ IF Avail < 12
       THEN /\ pos' = Len(stream)
            /\ Fail("InvalidFile")
            /\ UNCHANGED <<header, numBytes>>
       ELSE /\ pos' = pos + 12
            /\ header' = ParseHeader(stream, pos)
            /\ numBytes' = Add32(numBytes, Lit(12))
            /\ pc' = CASE header'.Id = sizeShunkID -> "size"
                       [] header'.Id = paletteChunkID -> "rgba"
                       [] header'.Id = voxelChunkID -> "xyzi"
                       [] OTHER -> "default"
            /\ UNCHANGED result
    /\ UNCHANGED <<input, stream, childrenSize, hasPalette, numVoxels, vi, img,
                   calls, lastRead, notDec>>

\* Lines 106-113: case SIZE.
ReadSize ==
    /\ pc = "size"
    /\ IF Avail < 12
       THEN /\ pos' = Len(stream)
            /\ Fail("InvalidChunk")
            /\ UNCHANGED <<numBytes, img, calls>>
       ELSE /\ pos' = pos + 12
            /\ numBytes' = Add32(numBytes, Lit(12))
            /\ LET b == Bx(0, 0, 0, ToInt(U32(stream, pos)), ToInt(U32(stream, pos + 4)),
                           ToInt(U32(stream, pos + 8)))
               IN  /\ img' = SetBounds(img, b)
                   /\ calls' = Append(calls, [m |-> "SetBounds", b |-> b])
            /\ pc' = "loop"
            /\ UNCHANGED result
    /\ UNCHANGED <<input, stream, header, childrenSize, hasPalette, numVoxels, vi,
                   lastRead, notDec>>

\* Lines 114-126: case RGBA: 256 reads of 4 bytes each.
ReadPalette ==
    /\ pc = "rgba"
    /\ IF Avail < 4 * PaletteLen
       THEN /\ pos' = Len(stream)
            /\ Fail("InvalidChunk")
            /\ UNCHANGED <<hasPalette, numBytes, img, calls>>
       ELSE /\ pos' = pos + 4 * PaletteLen
            /\ hasPalette' = TRUE
            /\ numBytes' = Add32(numBytes, PaletteBytesCounted)
            /\ img' = SetPalette(img, ParsePalette(stream, pos))
            /\ calls' = Append(calls, [m |-> "SetPalette",
                                       pal |-> ParsePalette(stream, pos)])
            /\ pc' = "loop"
            /\ UNCHANGED result
    /\ UNCHANGED <<input, stream, header, childrenSize, numVoxels, vi, lastRead,
                   notDec>>

\* Lines 127-132: case XYZI: read the voxel count, count 4.
ReadVoxelCount ==
    /\ pc = "xyzi"
    /\ IF Avail < 4
       THEN /\ pos' = Len(stream)
            /\ Fail("InvalidChunk")
            /\ UNCHANGED <<numVoxels, numBytes, vi>>
       ELSE /\ pos' = pos + 4
            /\ numVoxels' = U32(stream, pos)
            /\ numBytes' = Add32(numBytes, Lit(4))
            /\ vi' = Lit(0)
            /\ pc' = "voxels"
            /\ UNCHANGED result
    /\ UNCHANGED <<input, stream, header, childrenSize, hasPalette, img, calls,
                   lastRead, notDec>>

\* Lines 134-140: one pass of the voxel loop: read 4 bytes, img.Set.
ReadVoxel ==
    /\ pc = "voxels"
    /\ Lt32(vi, numVoxels)
    /\ IF Avail < 4
       THEN /\ pos' = Len(stream)
            /\ Fail("InvalidChunk")
            /\ UNCHANGED <<vi, img, calls>>
       ELSE /\ pos' = pos + 4
            /\ LET x == stream[pos + 1]
                   y == stream[pos + 2]
                   z == stream[pos + 3]
                   v == stream[pos + 4]
               IN  /\ calls' = Append(calls, [m |-> "Set", x |-> x, y |-> y,
                                              z |-> z, v |-> v])
                   /\ IF SetPanics(img, x, y, z)
                      THEN Fail("panic") /\ UNCHANGED <<img, vi>>
                      ELSE /\ img' = Set(img, x, y, z, v)
                           /\ vi' = Add32(vi, Lit(1))
                           /\ UNCHANGED <<pc, result>>
    /\ UNCHANGED <<input, stream, header, childrenSize, numBytes, hasPalette,
                   numVoxels, lastRead, notDec>>

\* Line 141: the voxel loop is over: numBytes += 4 * numVoxels.
EndVoxels ==
    /\ pc = "voxels"
    /\ ~Lt32(vi, numVoxels)
    /\ numBytes' = Add32(numBytes, Mul4(numVoxels))
    /\ pc' = "loop"
    /\ UNCHANGED <<input, stream, pos, header, childrenSize, hasPalette, numVoxels,
                   vi, img, calls, result, lastRead, notDec>>

\* What one reader.Read(buf) with len(buf) = want (a uint32) may return, as
\* <<n, failed>>,
\* under the io.Reader contract: an error and no byte at the end of the stream
\* (for an empty buf a reader may answer either way there: bytes.Reader fails,
\* os.File does not); otherwise between one byte (iotest.OneByteReader) and as
\* many as the stream still holds, up to want (bytes.Reader, os.File).
ReadOutcomes(want, avail) ==
    IF want = Lit(0) THEN {<<0, FALSE>>} \cup (IF avail = 0 THEN {<<0, TRUE>>} ELSE {})
    ELSE IF avail = 0 THEN {<<0, TRUE>>}
    ELSE {<<1, FALSE>>,
          <<IF Lt32(Lit(avail), want) THEN avail ELSE ToInt(want), FALSE>>}

\* Lines 142-147: default: one reader.Read into a buffer of DataSize + ChildrenSize.
SkipDefault ==
    /\ pc = "default"
    /\ LET sz == Add32(header.DataSize, header.ChildrenSize)
       IN  \E o \in ReadOutcomes(sz, Avail) :
              /\ pos' = pos + o[1]
              /\ lastRead' = [want |-> sz, got |-> o[1], at |-> pos, err |-> o[2]]
              /\ IF o[2]
                 THEN Fail("InvalidFile") /\ UNCHANGED numBytes
                 ELSE /\ numBytes' = Add32(numBytes, sz)
                      /\ pc' = "loop"
                      /\ UNCHANGED result
    /\ UNCHANGED <<input, stream, header, childrenSize, hasPalette, numVoxels, vi,
                   img, calls, notDec>>

\* Lines 99, 151-155: the loop test fails; install the default palette when no
\* RGBA chunk set one, return nil.
Return ==
    /\ pc = "loop"
    /\ ~Lt32(numBytes, childrenSize)
    /\ IF WantsDefault(hasPalette)
       THEN /\ img' = SetPalette(img, defaultPalette)
            /\ calls' = Append(calls, [m |-> "SetPalette", pal |-> defaultPalette])
       ELSE UNCHANGED <<img, calls>>
    /\ result' = "ok"
    /\ pc' = "done"
    /\ UNCHANGED <<input, stream, pos, header, childrenSize, numBytes, hasPalette,
                   numVoxels, vi, lastRead, notDec>>

Next ==
    \/ ReadFileHeader
    \/ ReadMainHeader
    \/ ReadChildHeader
    \/ ReadSize
    \/ ReadPalette
    \/ ReadVoxelCount
    \/ ReadVoxel
    \/ EndVoxels
    \/ SkipDefault
    \/ Return

Spec == InitDecode /\ [][Next]_vars

\* ---- Claims about Decode ------------------------------------------------

\* The stream is well formed and its children are one SIZE, one RGBA and one
\* XYZI chunk, SIZE ahead of XYZI.
RoundTripInput ==
    /\ input.defect.kind = "none"
    /\ input.chunks \in { <<"SIZE", "RGBA", "XYZI">>, <<"SIZE", "XYZI", "RGBA">>,
                          <<"RGBA", "SIZE", "XYZI">> }

\* The index the voxel list gives cell (x,y,z): that of the last entry naming it,
\* 0 when none does.
ListedIndex(x, y, z) ==
    LET hits == {k \in 1..Len(TestVoxels) :
                    /\ TestVoxels[k][1] = x /\ TestVoxels[k][2] = y
                    /\ TestVoxels[k][3] = z}
    IN  IF hits = {} THEN 0
        ELSE TestVoxels[CHOOSE k \in hits : \A j \in hits : j <= k][4]

\* C1: decoding a well-formed stream of one SIZE (W,H,D), one RGBA (table T)
\* and one XYZI chunk, SIZE ahead of XYZI, succeeds and leaves the sink with
\* bounds Bx(0,0,0,W,H,D), palette T, the listed index in every listed cell and
\* 0 in every other cell.
C1_RoundTrip ==
    (pc = "done" /\ RoundTripInput) =>
        /\ result = "ok"
        /\ img.bounds = Bx(0, 0, 0, TestExtent[1], TestExtent[2], TestExtent[3])
        /\ img.Palette = TestPalette
        /\ \A x \in 0..(TestExtent[1] - 1), y \in 0..(TestExtent[2] - 1),
              z \in 0..(TestExtent[3] - 1) :
              /\ ~GetPanics(img, x, y, z)
              /\ Get(img, x, y, z) = ListedIndex(x, y, z)

\* The positions in calls of SetPalette(defaultPalette).
DefaultCalls ==
    {k \in 1..Len(calls) : calls[k].m = "SetPalette" /\ calls[k].pal = defaultPalette}

\* Some RGBA chunk was processed: its table went to SetPalette.
RgbaProcessed ==
    \E k \in 1..Len(calls) : calls[k].m = "SetPalette" /\ calls[k].pal # defaultPalette

\* C2: when Decode returns success and processed no RGBA chunk, its last sink
\* call is SetPalette(defaultPalette) and it made that call once; when it
\* processed an RGBA chunk, or has not returned success, it never called
\* SetPalette with the default palette.
C2_DefaultPalette ==
    /\ (result = "ok" /\ ~RgbaProcessed) =>
          /\ Cardinality(DefaultCalls) = 1
          /\ Len(calls) \in DefaultCalls
    /\ (RgbaProcessed \/ result # "ok") => DefaultCalls = {}

\* Success on a stream of SIZE and XYZI only: bounds, two voxels, then the
\* default palette.
C2_Witness ==
    /\ result = "ok" /\ ~RgbaProcessed
    /\ input.defect.kind = "none"
    /\ Len(calls) = 4
    /\ calls[1].m = "SetBounds"
    /\ calls[4] = [m |-> "SetPalette", pal |-> defaultPalette]
    /\ img.Palette = defaultPalette

\* The stream ends before 8 bytes or its first 4 bytes are not "VOX ".
BadMagic == Len(stream) < 8 \/ SubSeq(stream, 1, 4) # voxMagic

\* C3: on a stream that ends before 8 bytes or whose first 4 bytes are not the
\* magic tag, Decode returns InvalidFile and calls no sink method.
C3_BadMagicTouchesNothing ==
    BadMagic =>
        /\ calls = <<>>
        /\ img = NewPaletted(<<>>, ZB)
        /\ (pc = "done" /\ result = "InvalidFile") \/ (pc = "fileHeader" /\ result = "none")

\* Decode has returned on a full-length stream of three chunks whose magic has
\* one byte altered.
C3_Witness ==
    /\ pc = "done" /\ result = "InvalidFile"
    /\ Len(stream) >= 8 /\ SubSeq(stream, 1, 4) # voxMagic
    /\ Len(input.chunks) = 3
    /\ calls = <<>>

\* C8: at the top of the child loop, after SIZE, RGBA and XYZI chunks only,
\* numBytes equals the number of bytes read since the end of the MAIN header
\* (each chunk added 12 plus 12, 1024 or 4 + 4*count, the bytes read for it).
C8_CounterMatchesBytesRead ==
    (/\ pc = "loop"
     /\ \A k \in 1..Len(input.chunks) : input.chunks[k] \in {"SIZE", "RGBA", "XYZI"})
        => numBytes = Lit(pos - 20)

\* C9: the read of the default branch advances the stream by exactly
\* DataSize + ChildrenSize bytes and Decode goes on, whatever the reader and also
\* for 0 bytes at the end of the stream; when fewer bytes remain Decode fails
\* with InvalidFile.
C9_SkipsExactly ==
    lastRead.at >= 0 =>
        IF Lt32(Lit(Len(stream) - lastRead.at), lastRead.want)
        THEN lastRead.err /\ result = "InvalidFile"
        ELSE ~lastRead.err /\ Lit(lastRead.got) = lastRead.want

\* C10: when the MAIN childrenSize overstates the bytes of the children (here
\* whole SIZE, RGBA and XYZI chunks that the sink accepts), Decode ends with
\* InvalidFile, raised by the read of the next child header.
C10_OverstatedFails ==
    (/\ pc = "done" /\ result # "panic"
     /\ input.defect.kind = "childrenSize"
     /\ \A k \in 1..Len(input.chunks) : input.chunks[k] \in {"SIZE", "RGBA", "XYZI"}
     /\ Lt32(Lit(Len(Children(input.chunks))), childrenSize))
        => result = "InvalidFile"

(***************************************************************************)
(* SpecBox: Box.Union on bounded boxes                                     *)
(***************************************************************************)
\* Corner coordinates range over -1..MaxCoord.
MaxCoord == 2

Coords == (0 - 1)..MaxCoord

Points == {Pt(x, y, z) : x \in Coords, y \in Coords, z \in Coords}

\* Every Box value over Points: canonical, empty and inverted ones alike.
Boxes == {Box(mn, mx) : mn \in Points, mx \in Points}

InitBox ==
    /\ boxA \in Boxes
    /\ boxB \in {ZB, Box(ZP, Pt(1, 1, 1))}
    /\ boxOut = ZB
    /\ boxOp = "none"
    /\ DecIdle /\ BlitIdle /\ PalIdle

\* boxA.Union(boxB)
UnionAB ==
    /\ boxOp = "none"
    /\ boxOut' = Union(boxA, boxB)
    /\ boxOp' = "A.Union(B)"
    /\ UNCHANGED <<boxA, boxB, decVars, img, blitVars, palVars>>

\* boxB.Union(boxA)
UnionBA ==
    /\ boxOp = "none"
    /\ boxOut' = Union(boxB, boxA)
    /\ boxOp' = "B.Union(A)"
    /\ UNCHANGED <<boxA, boxB, decVars, img, blitVars, palVars>>

NextBox == UnionAB \/ UnionBA

SpecBox == InitBox /\ [][NextBox]_vars

\* C7 as claimed: ZB.Union(s) and s.Union(ZB) both equal s field for field, for
\* every Box s, empty and non-canonical boxes included.
C7_UnionIdentityFieldwise ==
    (boxB = ZB /\ boxOp # "none") => boxOut = boxA

\* C7 as amended: ZB.Union(s) equals s field for field for every Box s;
\* s.Union(ZB) equals s field for field when s is not empty, and is ZB (equal to
\* s under Box.Eq only) when s is empty.
C7_UnionIdentity ==
    boxB = ZB =>
        /\ boxOp = "B.Union(A)" => boxOut = boxA
        /\ boxOp = "A.Union(B)" =>
              /\ Eq(boxOut, boxA)
              /\ ~Empty(boxA) => boxOut = boxA
              /\ Empty(boxA) => boxOut = ZB

\* An empty box other than ZB on the left of Union(ZB): the result is ZB.
C7_Witness ==
    /\ boxB = ZB /\ boxOp = "A.Union(B)"
    /\ Empty(boxA) /\ boxA # ZB /\ boxOut = ZB

(***************************************************************************)
(* SpecPaletted: SetBounds, Set and Get on one Paletted image whose        *)
(* Transformer the caller has chosen                                       *)
(***************************************************************************)
\* Extents passed to SetBounds range over 1..MaxExtent on each axis.
MaxExtent == 2

\* At most MaxSets calls of Set are made on one image.
MaxSets == 2

\* Palette indices written by Set.
Indices == {7, 9}

InitPaletted ==
    /\ \E t \in Transformers : pimg = [NoImage EXCEPT !.Transformer = t]
    /\ pbox = ZB
    /\ pset = <<>>
    /\ pget = <<>>
    /\ pn = 0
    /\ DecIdle /\ BlitIdle /\ BoxIdle

\* pimg.SetBounds(Bx(0,0,0,w,h,d))
PSetBounds ==
    /\ pn = 0
    /\ pbox = ZB
    /\ \E w \in 1..MaxExtent, h \in 1..MaxExtent, d \in 1..MaxExtent :
          /\ pbox' = Bx(0, 0, 0, w, h, d)
          /\ pimg' = SetBounds(pimg, Bx(0, 0, 0, w, h, d))
    /\ UNCHANGED <<pset, pget, pn, decVars, img, blitVars, boxVars>>

\* pimg.Set(x, y, z, v) at a coordinate of the box given to SetBounds
PSet ==
    /\ pbox # ZB
    /\ pn < MaxSets
    /\ \E x \in 0..(pbox.Max.X - 1), y \in 0..(pbox.Max.Y - 1),
          z \in 0..(pbox.Max.Z - 1), v \in Indices :
          /\ ~SetPanics(pimg, x, y, z)
          /\ pimg' = Set(pimg, x, y, z, v)
          /\ pset' = [x |-> x, y |-> y, z |-> z, v |-> v]
    /\ pn' = pn + 1
    /\ pget' = <<>>
    /\ UNCHANGED <<pbox, decVars, img, blitVars, boxVars>>

\* pimg.Get(x, y, z) at a coordinate of the box given to SetBounds
PGet ==
    /\ pbox # ZB
    /\ pget = <<>>
    /\ \E x \in 0..(pbox.Max.X - 1), y \in 0..(pbox.Max.Y - 1),
          z \in 0..(pbox.Max.Z - 1) :
          pget' = [x |-> x, y |-> y, z |-> z,
                   val |-> IF GetPanics(pimg, x, y, z) THEN "panic"
                           ELSE Get(pimg, x, y, z)]
    /\ UNCHANGED <<pimg, pbox, pset, pn, decVars, img, blitVars, boxVars>>

NextPaletted == PSetBounds \/ PSet \/ PGet

SpecPaletted == InitPaletted /\ [][NextPaletted]_vars

\* C4: whatever the Transformer, Get(x,y,z) right after Set(x,y,z,v) at a
\* coordinate in bounds returns v (the Transformer is applied on reads as on
\* writes).
C4_GetAfterSet ==
    (/\ pset # <<>> /\ pget # <<>>
     /\ pget.x = pset.x /\ pget.y = pset.y /\ pget.z = pset.z
     /\ PointIn(Pt(pset.x, pset.y, pset.z), pimg.bounds))
        => pget.val = pset.v

(***************************************************************************)
(* SpecBlit: Blit and BlitOp between two Paletted images                   *)
(***************************************************************************)
\* The images are Extent wide, one of their axes one more.
Extent == 2

\* Extents of the source and of the destination image.
SrcExtent == <<Extent + 1, Extent, Extent>>

DstExtent == <<Extent, Extent + 1, Extent>>

\* Per axis, the <<sr.Min, sr.Max, dp>> the caller passes: regions that fit,
\* regions clipped on either side by either image, empty and inverted regions,
\* and destination points outside the destination.
AxisCases ==
    { <<0, Extent, 0>>, <<1, Extent, 0>>, <<0, 1, 1>>,
      <<0, Extent + 2, 0>>, <<0 - 1, 1, 0>>,
      <<0, Extent, 1>>, <<0, Extent, 0 - 1>>,
      <<1, 1, 0>>, <<Extent + 1, Extent + 3, 0>>, <<Extent, 0, 0>>,
      <<0, Extent, Extent + 4>>, <<0, Extent, 0 - 5>> }

\* An image of the given extents whose cell at flat offset k holds base + k.
Filled(ext, base) ==
    [NewPaletted(<<>>, Bx(0, 0, 0, ext[1], ext[2], ext[3]))
        EXCEPT !.Data = [k \in 1..(ext[1] * ext[2] * ext[3]) |-> base + k]]

InitBlit ==
    /\ src = Filled(SrcExtent, 0)
    /\ dst = Filled(DstExtent, 100)
    /\ \E ax \in AxisCases, ay \in AxisCases, az \in AxisCases :
          /\ sr0 = Box(Pt(ax[1], ay[1], az[1]), Pt(ax[2], ay[2], az[2]))
          /\ dp = Pt(ax[3], ay[3], az[3])
    /\ sr = sr0
    /\ bb = ZB
    /\ cur = NoCursor
    /\ bpc = "start"
    /\ useOp \in BOOLEAN
    /\ blog = <<>>
    /\ DecIdle /\ PalIdle /\ BoxIdle

\* Lines 21-23 / 40-42: clip sr, place the footprint at dp, clip it to dst.
BlitClip ==
    /\ bpc = "start"
    /\ LET s == Intersect(sr, src.bounds)
           dr == Box(dp, PointAdd(Size(s), dp))
           b == Intersect(dst.bounds, dr)
       IN  /\ sr' = s
           /\ bb' = b
           /\ cur' = [cur EXCEPT !.z = b.Min.Z, !.sz = s.Min.Z]
    /\ bpc' = "z"
    /\ UNCHANGED <<dst, src, dp, sr0, useOp, blog, decVars, img, palVars, boxVars>>

\* The test of the z loop; entering it initialises y and sy.
BlitLoopZ ==
    /\ bpc = "z"
    /\ IF cur.z < bb.Max.Z
       THEN /\ cur' = [cur EXCEPT !.y = bb.Min.Y, !.sy = sr.Min.Y]
            /\ bpc' = "y"
       ELSE /\ bpc' = "done"
            /\ UNCHANGED cur
    /\ UNCHANGED <<dst, src, dp, sr, sr0, bb, useOp, blog, decVars, img, palVars, boxVars>>

\* The test of the y loop; leaving it runs sz++ and the z++ of the z loop.
BlitLoopY ==
    /\ bpc = "y"
    /\ IF cur.y < bb.Max.Y
       THEN /\ cur' = [cur EXCEPT !.x = bb.Min.X, !.sx = sr.Min.X]
            /\ bpc' = "x"
       ELSE /\ cur' = [cur EXCEPT !.sz = cur.sz + 1, !.z = cur.z + 1]
            /\ bpc' = "z"
    /\ UNCHANGED <<dst, src, dp, sr, sr0, bb, useOp, blog, decVars, img, palVars, boxVars>>

\* The condition of the x loop with <= for <: one pass too many.
LoopXCondInclusive(c, b) == c.x <= b.Max.X

\* Line 27 / 46: the condition of the x loop.
LoopXCond(c, b) == c.x < b.Max.X

\* The calls one pass of the x loop body makes.
BodyCalls(c, op) ==
    IF op
    THEN << [m |-> "op", x |-> c.x, y |-> c.y, z |-> c.z,
             sx |-> c.sx, sy |-> c.sy, sz |-> c.sz] >>
    ELSE << [m |-> "Get", x |-> c.sx, y |-> c.sy, z |-> c.sz] >>
         \o (IF GetPanics(src, c.sx, c.sy, c.sz) THEN <<>>
             ELSE << [m |-> "Set", x |-> c.x, y |-> c.y, z |-> c.z,
                      v |-> Get(src, c.sx, c.sy, c.sz)] >>)

\* The test of the x loop and its body: dst.Set(x, y, z, src.Get(sx, sy, sz)) in
\* Blit, op(dst, src, x, y, z, sx, sy, sz) in BlitOp (an op that only observes);
\* leaving the loop runs sy++ and the y++ of the y loop.
BlitLoopX ==
    /\ bpc = "x"
    /\ IF LoopXCond(cur, bb)
       THEN /\ blog' = blog \o BodyCalls(cur, useOp)
            /\ IF useOp
               THEN /\ UNCHANGED dst
                    /\ bpc' = "x"
               ELSE IF GetPanics(src, cur.sx, cur.sy, cur.sz)
                       \/ SetPanics(dst, cur.x, cur.y, cur.z)
               THEN /\ UNCHANGED dst
                    /\ bpc' = "panic"
               ELSE /\ dst' = Set(dst, cur.x, cur.y, cur.z,
                                  Get(src, cur.sx, cur.sy, cur.sz))
                    /\ bpc' = "x"
            /\ cur' = [cur EXCEPT !.sx = cur.sx + 1, !.x = cur.x + 1]
       ELSE /\ cur' = [cur EXCEPT !.sy = cur.sy + 1, !.y = cur.y + 1]
            /\ bpc' = "y"
            /\ UNCHANGED <<dst, blog>>
    /\ UNCHANGED <<src, dp, sr, sr0, bb, useOp, decVars, img, palVars, boxVars>>

NextBlit == BlitClip \/ BlitLoopZ \/ BlitLoopY \/ BlitLoopX

SpecBlit == InitBlit /\ [][NextBlit]_vars

\* The cells (integer points) of a box.
Cells(b) ==
    {Pt(x, y, z) : x \in b.Min.X..(b.Max.X - 1), y \in b.Min.Y..(b.Max.Y - 1),
                   z \in b.Min.Z..(b.Max.Z - 1)}

SetCalls == SelectSeq(blog, LAMBDA c : c.m = "Set")

\* The region passed as sr is N x M x K with N, M, K >= 0 and lies inside
\* src.Bounds(), and placed at dp it lies inside dst.Bounds().
RegionFits ==
    LET n == Size(sr0)
    IN  /\ n.X >= 0 /\ n.Y >= 0 /\ n.Z >= 0
        /\ src.bounds.Min.X <= sr0.Min.X /\ sr0.Max.X <= src.bounds.Max.X
        /\ src.bounds.Min.Y <= sr0.Min.Y /\ sr0.Max.Y <= src.bounds.Max.Y
        /\ src.bounds.Min.Z <= sr0.Min.Z /\ sr0.Max.Z <= src.bounds.Max.Z
        /\ dst.bounds.Min.X <= dp.X /\ dp.X + n.X <= dst.bounds.Max.X
        /\ dst.bounds.Min.Y <= dp.Y /\ dp.Y + n.Y <= dst.bounds.Max.Y
        /\ dst.bounds.Min.Z <= dp.Z /\ dp.Z + n.Z <= dst.bounds.Max.Z

\* The k-th cell (k from 1) of Box{dp, dp+(N,M,K)} in ascending Z, then Y, then X
\* order, X varying fastest.
NthCell(k) ==
    LET n == Size(sr0)
    IN  Pt(dp.X + ((k - 1) % n.X),
           dp.Y + (((k - 1) \div n.X) % n.Y),
           dp.Z + ((k - 1) \div (n.X * n.Y)))

\* C5: a Blit of an N x M x K region that fits in both images calls dst.Set
\* exactly N*M*K times, the k-th call at the k-th cell of Box{dp, dp+(N,M,K)} in
\* ascending Z, then Y, then X order, and so never twice at one cell.
C5_BlitVisitsEachCellOnce ==
    (bpc # "start" /\ ~useOp /\ RegionFits) =>
        LET n == Size(sr0)
            total == n.X * n.Y * n.Z
        IN  /\ bpc # "panic"
            /\ Len(SetCalls) <= total
            /\ bpc = "done" => Len(SetCalls) = total
            /\ \A k \in 1..Len(SetCalls) :
                  Pt(SetCalls[k].x, SetCalls[k].y, SetCalls[k].z) = NthCell(k)
            /\ \A i, j \in 1..Len(SetCalls) :
                  (SetCalls[i].x = SetCalls[j].x /\ SetCalls[i].y = SetCalls[j].y
                   /\ SetCalls[i].z = SetCalls[j].z) => i = j

\* A finished Blit of an Extent x Extent x Extent region that fits, at
\* dp = (0,1,0).
C5_Witness ==
    /\ bpc = "done" /\ ~useOp /\ RegionFits
    /\ Size(sr0) = Pt(Extent, Extent, Extent) /\ dp = Pt(0, 1, 0)
    /\ Len(SetCalls) = Extent * Extent * Extent

\* No cell of src lies in the region passed as sr.
SourceRegionEmpty == \A p \in Cells(src.bounds) : ~PointIn(p, sr0)

\* No cell of dst lies in the footprint Box{dp, dp+size(sr)} of the clipped sr.
FootprintEmpty ==
    \A p \in Cells(dst.bounds) : ~PointIn(p, Box(dp, PointAdd(Size(sr), dp)))

\* C6: when the source region or the destination footprint is empty after
\* clipping, Blit and BlitOp make no dst.Set, src.Get or op call, leave every
\* cell of dst as it was and do not panic.
C6_EmptyRegionTouchesNothing ==
    (bpc # "start" /\ (SourceRegionEmpty \/ FootprintEmpty)) =>
        /\ blog = <<>>
        /\ dst = Filled(DstExtent, 100)
        /\ bpc # "panic"

\* A finished Blit of a non-empty source region whose dp lies outside dst.
C6_Witness ==
    /\ bpc = "done" /\ ~useOp
    /\ ~SourceRegionEmpty /\ FootprintEmpty
    /\ ~PointIn(dp, dst.bounds)
    /\ dst = Filled(DstExtent, 100)

\* The source coordinate that keeps the offset of destination cell (x,y,z) from
\* dp: sr.Min + ((x,y,z) - dp), sr being the clipped source box.
SourceOf(x, y, z) == Pt(sr.Min.X + (x - dp.X), sr.Min.Y + (y - dp.Y), sr.Min.Z + (z - dp.Z))

\* C11: every destination cell c that Blit writes receives src.Get(sr.Min +
\* (c - dp)), sr being the source box clipped to src.Bounds(), also when the
\* footprint is clipped on its Min side by dst.Bounds(); BlitOp hands op the
\* same source coordinate; and every source coordinate read lies in src.Bounds().
C11_BlitKeepsOffset ==
    bpc # "start" =>
        \A k \in 1..Len(blog) :
            LET c == blog[k]
            IN  /\ c.m = "Get" => PointIn(Pt(c.x, c.y, c.z), src.bounds)
                /\ c.m = "Set" =>
                      /\ PointIn(SourceOf(c.x, c.y, c.z), src.bounds)
                      /\ c.v = Get(src, SourceOf(c.x, c.y, c.z).X,
                                   SourceOf(c.x, c.y, c.z).Y, SourceOf(c.x, c.y, c.z).Z)
                /\ c.m = "op" =>
                      /\ Pt(c.sx, c.sy, c.sz) = SourceOf(c.x, c.y, c.z)
                      /\ PointIn(Pt(c.sx, c.sy, c.sz), src.bounds)

\* The part of C11 that does not depend on the clip of the footprint: every
\* source coordinate Blit reads or hands to op lies in src.Bounds().
C11_SourceReadsInBounds ==
    \A k \in 1..Len(blog) :
        /\ blog[k].m = "Get" => PointIn(Pt(blog[k].x, blog[k].y, blog[k].z), src.bounds)
        /\ blog[k].m = "op" => PointIn(Pt(blog[k].sx, blog[k].sy, blog[k].sz), src.bounds)

====
